---- MODULE Spec2Model ----
(***************************************************************************)
(* DailyGammon score synchronizer (src/dailygammonNewPW_scores3.py).       *)
(* One run of main() is modelled as a chain of steps over the in-memory    *)
(* workbook; between runs the moderator edits the stored workbook and the  *)
(* remote site changes.                                                    *)
(***************************************************************************)
EXTENDS Integers, Sequences, FiniteSets, TLC

\* ------------------------------------------------------------------ bounds
\* number of moderator / remote events in one behaviour
MaxEdits == 3

\* ------------------------------------------------------- program constants
\* the final score that marks a match as decided
TERMINAL == 11
\* character offset that separates the left from the right export column
mid_threshold == 24

\* ------------------------------------------------------------- text values
\* Names and cell texts are sequences of one-character strings.
Ann == <<"A", "n">>
Bob == <<"B", "o">>
Cy == <<"C", "y">>
Names == {Ann, Bob, Cy}
\* a player of the site who is not in the tournament
Di == <<"D", "i">>
SitePlayers == Names \cup {Di}
\* order of the rows of the Players / Links / Matches sheets
Order == <<Ann, Cy, Bob>>

Digits == <<"0", "1", "2", "3", "4", "5", "6", "7", "8", "9">>

LowerChar(ch) ==
  CASE ch = "A" -> "a"
    [] ch = "B" -> "b"
    [] ch = "C" -> "c"
    [] ch = "D" -> "d"
    [] ch = "N" -> "n"
    [] OTHER -> ch

\* str.lower()
Lower(s) == [i \in 1..Len(s) |-> LowerChar(s[i])]

RECURSIVE LStrip(_)
LStrip(s) == IF s # <<>> /\ Head(s) = " " THEN LStrip(Tail(s)) ELSE s

RECURSIVE RStrip(_)
RStrip(s) ==
  IF s # <<>> /\ s[Len(s)] = " " THEN RStrip(SubSeq(s, 1, Len(s) - 1)) ELSE s

\* str.strip()
Strip(s) == RStrip(LStrip(s))

\* the Python test  p in t  on strings
IsSubstr(p, t) ==
  \E i \in 0..(Len(t) - Len(p)) : SubSeq(t, i + 1, i + Len(p)) = p

IsDigit(ch) == \E d \in 1..10 : Digits[d] = ch
DigitVal(ch) == (CHOOSE d \in 1..10 : Digits[d] = ch) - 1

RECURSIVE DigitsVal(_)
DigitsVal(s) ==
  IF s = <<>> THEN 0
  ELSE 10 * DigitsVal(SubSeq(s, 1, Len(s) - 1)) + DigitVal(s[Len(s)])

\* str(n) of a non-negative integer
RECURSIVE ToStr(_)
ToStr(n) ==
  IF n < 10 THEN <<Digits[n + 1]>>
  ELSE ToStr(n \div 10) \o <<Digits[(n % 10) + 1]>>

\* ------------------------------------------------------------- cell values
\* A spreadsheet cell holds nothing, a number or a text.
NoneCell == [t |-> "none", n |-> 0, s |-> <<>>]
IntCell(k) == [t |-> "int", n |-> k, s |-> <<>>]
StrCell(x) == [t |-> "str", n |-> 0, s |-> x]

\* Python truthiness of a cell value (the tests  if not val  /  if not cell.value)
Truthy(v) ==
  CASE v.t = "none" -> FALSE
    [] v.t = "int" -> v.n # 0
    [] OTHER -> v.s # <<>>

\* int(val), falling back to int(str(val).strip()); ok = FALSE when both raise
ParseInt(v) ==
  IF v.t = "int" THEN [ok |-> TRUE, n |-> v.n]
  ELSE LET x == Strip(v.s) IN
       IF x # <<>> /\ \A i \in 1..Len(x) : IsDigit(x[i])
       THEN [ok |-> TRUE, n |-> DigitsVal(x)]
       ELSE [ok |-> FALSE, n |-> 0]

\* score cells: <<>> is an empty cell, <<n>> holds the number n
NoScore == <<>>
Holds(cell, n) == cell = <<n>>

\* match_flag cells
FlagNone == "None"

\* the sentinel of control!A1
ALL_FILLED == "All match IDs filled"

\* ------------------------------------------------------------ the remote
\* match ids in the order the player pages list them
MatchOrder == <<7, 12>>
MatchIds == {MatchOrder[i] : i \in 1..Len(MatchOrder)}

\* the score lines a match page shows as the match goes on, oldest first
ScoreLines == << <<3, 5>>, <<5, 11>> >>

\* offsets of "Wins" in the final line of an export
WinsPositions == {6, 30}

NoMatch ==
  [exists |-> FALSE, left |-> <<>>, right |-> <<>>, stage |-> 0, wins |-> 0,
   up |-> TRUE]

\* ------------------------------------------------------------ dictionaries
EmptyDict == [k \in {} |-> 0]
Put(d, k, v) == [x \in DOMAIN d \cup {k} |-> IF x = k THEN v ELSE d[x]]
Has(d, k) == k \in DOMAIN d

\* the off-diagonal cells of the Links / match_flag / Matches grids
Cells == {c \in Names \X Names : c[1] # c[2]}

VARIABLES
  disk,               \* the stored workbook
  wb,                 \* the workbook in memory during a run (wb_xw)
  rm,                 \* remote matches, by match id
  pageUp,             \* player -> whether the player's page can be fetched
  pc,                 \* position of the run
  skip_fetching,
  matches, matches_by_hand, match_id_to_excel, html_cache, finished_by_id,
  fetches,            \* match id -> number of fetch_list_html calls in this run
  queried,            \* players whose match list was requested in this run
  edits,              \* moderator / remote events so far
  quiet,              \* no moderator / remote event since the last saved run
  failure,            \* the uncaught exception that ended the run, or ""
  call,               \* the arguments of a call of map_scores_for_excel
  ret                 \* what that call returned

vars ==
  <<disk, wb, rm, pageUp, pc, skip_fetching, matches, matches_by_hand,
    match_id_to_excel, html_cache, finished_by_id, fetches, queried, edits,
    quiet, failure, call, ret>>

runVars ==
  <<skip_fetching, matches, matches_by_hand, match_id_to_excel, html_cache,
    finished_by_id, fetches, queried>>

callVars == <<call, ret>>

\* ---------------------------------------------------------------- sheets
SeqOf(S) == SelectSeq(Order, LAMBDA n : n \in S)

\* Players sheet: names, and the names that carry a hyperlink (external id)
players(w) == SeqOf(w.players)
player_ids(w) == w.pids
\* Links sheet: column A from row 2, row 1 from column B
row_players_links(w) == SeqOf(w.grid)
col_opponents_links(w) == SeqOf(w.grid)
\* Matches sheet: column A from row 4
players_in_matches(w) == SeqOf(w.grid)

InSeq(x, s) == \E i \in 1..Len(s) : s[i] = x

EmptyBook(P) ==
  [players |-> P, pids |-> P, grid |-> P,
   links |-> [c \in Cells |-> NoneCell],
   flag |-> [c \in Cells |-> FlagNone],
   score |-> [c \in Cells |-> [left |-> NoScore, right |-> NoScore]],
   control |-> ""]

\* no workbook is loaded between runs
NoBook == EmptyBook({})

\* no call of the mapper is under study; no answer yet
NoCall ==
  [player |-> <<>>, opponent |-> <<>>, left_name |-> <<>>, right_name |-> <<>>,
   left_score |-> 0, right_score |-> 0, switched_flag |-> FALSE]
Pending == [some |-> FALSE, player_score |-> -1, opponent_score |-> -1]

\* the dictionaries of a run, empty
NewRunValues ==
  /\ matches = EmptyDict
  /\ matches_by_hand = EmptyDict
  /\ match_id_to_excel = EmptyDict
  /\ html_cache = EmptyDict
  /\ finished_by_id = EmptyDict
  /\ fetches = EmptyDict
  /\ queried = {}

Init ==
  /\ \E P \in {{Ann, Bob}, {Ann, Bob, Cy}}, G \in {{Ann, Bob}, {Ann, Bob, Cy}} :
       G \subseteq P /\ disk = [EmptyBook(P) EXCEPT !.grid = G]
  /\ wb = NoBook
  /\ rm = [m \in MatchIds |-> NoMatch]
  /\ pageUp = [p \in Names |-> TRUE]
  /\ pc = "idle"
  /\ skip_fetching = FALSE
  /\ NewRunValues
  /\ edits = 0
  /\ quiet = FALSE
  /\ failure = ""
  /\ call = NoCall
  /\ ret = Pending

\* ------------------------------------------------------- remote requests
NoneHtml == [some |-> FALSE, rows |-> <<>>]

ScoreText(name, score) == name \o <<" ", ":", " ">> \o ToStr(score)

\* the rows of the match page of m: one row per score line so far, each with
\* the two "<Name> : <Score>" cells
PageOf(m) ==
  [i \in 1..rm[m].stage |->
     [left |-> ScoreText(rm[m].left, ScoreLines[i][1]),
      right |-> ScoreText(rm[m].right, ScoreLines[i][2])]]

\* fetch_list_html: the page, or None on a failed request / login page.
\* An id the site does not know gives a page without score rows.
fetch_list_html(mid) ==
  IF mid \in MatchIds /\ rm[mid].exists
  THEN IF rm[mid].up THEN [some |-> TRUE, rows |-> PageOf(mid)] ELSE NoneHtml
  ELSE [some |-> TRUE, rows |-> <<>>]

\* the rows of the user page of p for the season: (opponent name, match id text)
UserPage(p) ==
  LET mine == SelectSeq(MatchOrder,
                LAMBDA m : rm[m].exists /\ p \in {rm[m].left, rm[m].right})
  IN [i \in 1..Len(mine) |->
        [opponent_name |-> IF rm[mine[i]].left = p THEN rm[mine[i]].right
                           ELSE rm[mine[i]].left,
         match_id |-> ToStr(mine[i])]]

\* get_player_matches: raises (ok = FALSE) when the request fails
get_player_matches(p) ==
  IF pageUp[p] THEN [ok |-> TRUE, rows |-> UserPage(p)]
  ELSE [ok |-> FALSE, rows |-> <<>>]

\* ---------------------------------------------------- extract_latest_score
SkipSpaces(t, i) ==
  IF \E j \in i..Len(t) : t[j] # " "
  THEN CHOOSE j \in i..Len(t) : t[j] # " " /\ \A k \in i..(j - 1) : t[k] = " "
  ELSE Len(t) + 1

DigitRun(t, i) ==
  IF \E j \in i..Len(t) : ~IsDigit(t[j])
  THEN (CHOOSE j \in i..Len(t) : ~IsDigit(t[j]) /\ \A k \in i..(j - 1) : IsDigit(t[k])) - 1
  ELSE Len(t)

\* whether  \s*:\s*(\d+)  matches at position i of t
TailAt(t, i) ==
  LET c == SkipSpaces(t, i) IN
  /\ c <= Len(t) /\ t[c] = ":"
  /\ LET d == SkipSpaces(t, c + 1) IN d <= Len(t) /\ IsDigit(t[d])

\* re.match(r"(.+?)\s*:\s*(\d+)", t): the shortest non-empty prefix that is
\* followed by the colon and the digits
ScoreMatch(t) ==
  IF \E k \in 1..Len(t) : TailAt(t, k + 1)
  THEN LET k == CHOOSE k \in 1..Len(t) :
                  TailAt(t, k + 1) /\ \A j \in 1..(k - 1) : ~TailAt(t, j + 1)
           c == SkipSpaces(t, k + 1)
           d == SkipSpaces(t, c + 1)
       IN [ok |-> TRUE, name |-> SubSeq(t, 1, k),
           score |-> DigitsVal(SubSeq(t, d, DigitRun(t, d)))]
  ELSE [ok |-> FALSE, name |-> <<>>, score |-> 0]

NoScoreInfo ==
  [found |-> FALSE, left_name |-> <<>>, right_name |-> <<>>,
   left_score |-> 0, right_score |-> 0]

RECURSIVE ScanRows(_, _, _)
ScanRows(rows, i, players_list) ==
  IF i = 0 THEN NoScoreInfo
  ELSE LET text == rows[i].left \o <<" ">> \o rows[i].right
           l == ScoreMatch(rows[i].left)
           r == ScoreMatch(rows[i].right)
       IN IF ~\E k \in 1..Len(players_list) : IsSubstr(players_list[k], text)
          THEN ScanRows(rows, i - 1, players_list)
          ELSE IF l.ok /\ r.ok
               THEN [found |-> TRUE, left_name |-> Strip(l.name),
                     right_name |-> Strip(r.name),
                     left_score |-> l.score, right_score |-> r.score]
               ELSE ScanRows(rows, i - 1, players_list)

\* the latest row, from the bottom, that names a listed player and holds the
\* "<Name> : <Score>" pattern in both cells
extract_latest_score(html, players_list) ==
  ScanRows(html.rows, Len(html.rows), players_list)

\* ---------------------------------------------------- map_scores_for_excel
NoMapping == [some |-> FALSE, player_score |-> 0, opponent_score |-> 0]
Mapped(a, b) == [some |-> TRUE, player_score |-> a, opponent_score |-> b]

\* the mapper as it would be if the names were compared before the flag is
\* looked at
map_scores_names_first(player, opponent, left_name, right_name, left_score, right_score, switched_flag) ==
  LET ln == Lower(Strip(left_name))
      rn == Lower(Strip(right_name))
      pn == Lower(Strip(player))
      on == Lower(Strip(opponent))
  IN IF ln = pn /\ rn = on THEN Mapped(left_score, right_score)
     ELSE IF ln = on /\ rn = pn THEN Mapped(right_score, left_score)
     ELSE IF switched_flag THEN Mapped(right_score, left_score)
     ELSE IF IsSubstr(pn, ln) THEN Mapped(left_score, right_score)
     ELSE IF IsSubstr(pn, rn) THEN Mapped(right_score, left_score)
     ELSE NoMapping

\* the mapper as it would be if the fallback also went by the opponent's name
map_scores_by_opponent(player, opponent, left_name, right_name, left_score, right_score, switched_flag) ==
  LET ln == Lower(Strip(left_name))
      rn == Lower(Strip(right_name))
      pn == Lower(Strip(player))
      on == Lower(Strip(opponent))
  IN IF switched_flag THEN Mapped(right_score, left_score)
     ELSE IF ln = pn /\ rn = on THEN Mapped(left_score, right_score)
     ELSE IF ln = on /\ rn = pn THEN Mapped(right_score, left_score)
     ELSE IF IsSubstr(pn, ln) THEN Mapped(left_score, right_score)
     ELSE IF IsSubstr(pn, rn) THEN Mapped(right_score, left_score)
     ELSE IF IsSubstr(on, rn) THEN Mapped(left_score, right_score)
     ELSE IF IsSubstr(on, ln) THEN Mapped(right_score, left_score)
     ELSE NoMapping

map_scores_for_excel(player, opponent, left_name, right_name, left_score, right_score, switched_flag) ==
  LET ln == Lower(Strip(left_name))
      rn == Lower(Strip(right_name))
      pn == Lower(Strip(player))
      on == Lower(Strip(opponent))
  IN IF switched_flag THEN Mapped(right_score, left_score)
     ELSE IF ln = pn /\ rn = on THEN Mapped(left_score, right_score)
     ELSE IF ln = on /\ rn = pn THEN Mapped(right_score, left_score)
     ELSE IF IsSubstr(pn, ln) \/ IsSubstr(pn, rn) \/ IsSubstr(on, ln)
             \/ IsSubstr(on, rn)
          THEN IF IsSubstr(pn, ln) THEN Mapped(left_score, right_score)
               ELSE IF IsSubstr(pn, rn) THEN Mapped(right_score, left_score)
               ELSE NoMapping
          ELSE NoMapping

\* ------------------------------------------------------------ run: start
NewRun ==
  /\ matches' = EmptyDict
  /\ matches_by_hand' = EmptyDict
  /\ match_id_to_excel' = EmptyDict
  /\ html_cache' = EmptyDict
  /\ finished_by_id' = EmptyDict
  /\ fetches' = EmptyDict
  /\ queried' = {}

\* the start of a run as it would be if steps 1 and 2 were not guarded by
\* skip_fetching
StartRunUnguarded ==
  /\ pc = "idle"
  /\ wb' = disk
  /\ skip_fetching' = (disk.control = ALL_FILLED)
  /\ pc' = "step1"
  /\ NewRun
  /\ UNCHANGED <<callVars, disk, rm, pageUp, edits, quiet, failure>>

\* main() up to the data structures: load the workbook, log in, read control!A1
StartRun ==
  /\ pc = "idle"
  /\ wb' = disk
  /\ skip_fetching' = (disk.control = ALL_FILLED)
  /\ pc' = IF disk.control = ALL_FILLED THEN "step3" ELSE "step1"
  /\ NewRun
  /\ UNCHANGED <<callVars, disk, rm, pageUp, edits, quiet, failure>>

\* login_session raises: the run ends before the workbook is touched
LoginFails ==
  /\ pc = "idle"
  /\ pc' = "aborted"
  /\ failure' = "login"
  /\ UNCHANGED <<callVars, disk, wb, rm, pageUp, runVars, edits, quiet>>

\* the end of a failed run as it would be if the workbook in memory were
\* saved on the way out
CrashSaves ==
  /\ pc = "aborted"
  /\ pc' = "idle"
  /\ failure' = ""
  /\ disk' = IF wb = NoBook THEN disk ELSE wb
  /\ wb' = NoBook
  /\ skip_fetching' = FALSE
  /\ NewRun
  /\ UNCHANGED <<callVars, rm, pageUp, edits, quiet>>

\* an uncaught exception ends the process; nothing is saved
Crash ==
  /\ pc = "aborted"
  /\ pc' = "idle"
  /\ failure' = ""
  /\ wb' = NoBook
  /\ skip_fetching' = FALSE
  /\ NewRun
  /\ UNCHANGED <<callVars, disk, rm, pageUp, edits, quiet>>

\* ------------------------------------------------------------ run: step 1
PairSeq(rows, cols) ==
  [k \in 1..(Len(rows) * Len(cols)) |->
     <<rows[((k - 1) \div Len(cols)) + 1], cols[((k - 1) % Len(cols)) + 1]>>]

Bump(d, k) == Put(d, k, IF Has(d, k) THEN d[k] + 1 ELSE 1)

\* the classification as it would be if names that match neither order were
\* taken for a reversed entry
ClassifyEager(score_info, player_name, opp) ==
  LET ln == Lower(score_info.left_name)
      rn == Lower(score_info.right_name)
      pn == Lower(player_name)
      on == Lower(opp)
  IN IF ln = pn /\ rn = on THEN "normal" ELSE "switched"

\* the orientation step 1 records for a cell from the names of its page
Classify(score_info, player_name, opp) ==
  LET ln == Lower(score_info.left_name)
      rn == Lower(score_info.right_name)
      pn == Lower(player_name)
      on == Lower(opp)
  IN IF ln = pn /\ rn = on THEN "normal"
     ELSE IF ln = on /\ rn = pn THEN "switched"
     ELSE "unclear"

\* the body of the step 1 loops as it would be without the look at the
\* match_flag sheet: every filled cell is fetched
Step1CellRefetch(st, w, player_name, opp) ==
  LET key == <<player_name, opp>>
      val == w.links[key]
      parsed == ParseInt(val)
      match_id == parsed.n
      html == fetch_list_html(match_id)
      cached == [st EXCEPT !.html_cache = Put(@, match_id, html),
                           !.fetches = Bump(@, match_id)]
      normal == [cached EXCEPT
                   !.matches = Put(@, key, match_id),
                   !.match_id_to_excel = Put(@, match_id, <<player_name, opp, FALSE>>)]
      byhand == [cached EXCEPT
                   !.matches_by_hand = Put(@, key, <<match_id, TRUE>>),
                   !.match_id_to_excel = Put(@, match_id, <<player_name, opp, TRUE>>)]
      score_info == extract_latest_score(html, <<player_name, opp>>)
  IN IF player_name = opp THEN st
     ELSE IF ~Truthy(val) THEN st
     ELSE IF ~parsed.ok THEN [st EXCEPT !.failure = "identifier"]
     ELSE IF ~html.some THEN normal
     ELSE IF ~score_info.found THEN normal
     ELSE IF Classify(score_info, player_name, opp) = "switched" THEN byhand
     ELSE normal

\* one pass of the body of the step 1 loops, for the cell (player_name, opp)
Step1Cell(st, w, player_name, opp) ==
  LET key == <<player_name, opp>>
      val == w.links[key]
      parsed == ParseInt(val)
      match_id == parsed.n
      fresh == w.flag[key] = FlagNone
      html == IF fresh THEN fetch_list_html(match_id) ELSE NoneHtml
      cached == [st EXCEPT !.html_cache = Put(@, match_id, html),
                           !.fetches = IF fresh THEN Bump(@, match_id) ELSE @]
      normal == [cached EXCEPT
                   !.matches = Put(@, key, match_id),
                   !.match_id_to_excel = Put(@, match_id, <<player_name, opp, FALSE>>)]
      byhand == [cached EXCEPT
                   !.matches_by_hand = Put(@, key, <<match_id, TRUE>>),
                   !.match_id_to_excel = Put(@, match_id, <<player_name, opp, TRUE>>)]
      score_info == extract_latest_score(html, <<player_name, opp>>)
  IN IF player_name = opp THEN st
     ELSE IF ~Truthy(val) THEN st
     ELSE IF ~parsed.ok THEN [st EXCEPT !.failure = "identifier"]
     ELSE IF ~html.some THEN normal
     ELSE IF ~score_info.found THEN normal
     ELSE IF Classify(score_info, player_name, opp) = "switched" THEN byhand
     ELSE normal

RECURSIVE Step1Loop(_, _, _, _)
Step1Loop(st, w, cells, k) ==
  IF k > Len(cells) \/ st.failure # "" THEN st
  ELSE Step1Loop(Step1Cell(st, w, cells[k][1], cells[k][2]), w, cells, k + 1)

RunState ==
  [matches |-> matches, matches_by_hand |-> matches_by_hand,
   match_id_to_excel |-> match_id_to_excel, html_cache |-> html_cache,
   fetches |-> fetches, queried |-> queried, links |-> wb.links,
   flag |-> wb.flag, failure |-> ""]

Step1Result ==
  Step1Loop(RunState, wb,
            PairSeq(row_players_links(wb), col_opponents_links(wb)), 1)

Step1 ==
  /\ pc = "step1"
  /\ LET st == Step1Result IN
     /\ matches' = st.matches
     /\ matches_by_hand' = st.matches_by_hand
     /\ match_id_to_excel' = st.match_id_to_excel
     /\ html_cache' = st.html_cache
     /\ fetches' = st.fetches
     /\ failure' = st.failure
     /\ pc' = IF st.failure # "" THEN "aborted" ELSE "step2"
  /\ UNCHANGED <<callVars, disk, wb, rm, pageUp, skip_fetching, finished_by_id,
                 queried, edits, quiet>>

\* ------------------------------------------------------------ run: step 2
\* step 2 as it would be without the test for known pairings and without the
\* test for an empty cell: every listed match id is written into its cell
Step2TripleOverwrite(st, w, player, row) ==
  LET opponent_name == row.opponent_name
      key == <<player, opponent_name>>
      mid_int == ParseInt(StrCell(row.match_id)).n
      switched_flag ==
        IF Has(st.match_id_to_excel, mid_int)
        THEN st.match_id_to_excel[mid_int][3] ELSE FALSE
      noted == [st EXCEPT
                  !.matches = Put(@, key, mid_int),
                  !.match_id_to_excel =
                     Put(@, mid_int, <<player, opponent_name, switched_flag>>)]
      flagged == [noted EXCEPT !.flag[key] = IF switched_flag THEN "1" ELSE "0"]
  IN IF ~InSeq(player, row_players_links(w)) THEN noted
     ELSE IF ~InSeq(opponent_name, col_opponents_links(w))
             \/ opponent_name = player THEN noted
     ELSE [flagged EXCEPT !.links[key] = StrCell(row.match_id)]

\* the body of the loop over player_matches, for one (opponent, match id) row
Step2Triple(st, w, player, row) ==
  LET opponent_name == row.opponent_name
      key == <<player, opponent_name>>
      mid_int == ParseInt(StrCell(row.match_id)).n
      switched_flag ==
        IF Has(st.match_id_to_excel, mid_int)
        THEN st.match_id_to_excel[mid_int][3] ELSE FALSE
      noted == [st EXCEPT
                  !.matches = Put(@, key, mid_int),
                  !.match_id_to_excel =
                     Put(@, mid_int, <<player, opponent_name, switched_flag>>)]
      flagged == [noted EXCEPT !.flag[key] = IF switched_flag THEN "1" ELSE "0"]
  IN IF Has(st.matches, key) \/ Has(st.matches_by_hand, key) THEN st
     ELSE IF ~InSeq(player, row_players_links(w)) THEN noted
     ELSE IF ~InSeq(opponent_name, col_opponents_links(w))
             \/ opponent_name = player THEN noted
     ELSE IF ~Truthy(st.links[key])
          THEN [flagged EXCEPT !.links[key] = StrCell(row.match_id)]
          ELSE flagged

RECURSIVE Step2Rows(_, _, _, _, _)
Step2Rows(st, w, player, rows, k) ==
  IF k > Len(rows) THEN st
  ELSE Step2Rows(Step2Triple(st, w, player, rows[k]), w, player, rows, k + 1)

\* the opponents of player that step 2 still looks for
Missing(st, w, player) ==
  SelectSeq(players(w),
            LAMBDA opp : /\ opp # player
                         /\ ~Has(st.matches, <<player, opp>>)
                         /\ ~Has(st.matches_by_hand, <<player, opp>>))

\* the body of the loop over players as it would be without the test for the
\* player id: the page is asked for by name
Step2PlayerAnyone(st, w, player) ==
  LET player_matches == get_player_matches(player)
      asked == [st EXCEPT !.queried = @ \cup {player}]
  IN IF Missing(st, w, player) = <<>> THEN st
     ELSE IF ~player_matches.ok THEN [asked EXCEPT !.failure = "match list"]
     ELSE Step2Rows(asked, w, player, player_matches.rows, 1)

\* the body of the loop over players, for one player
Step2Player(st, w, player) ==
  LET player_matches == get_player_matches(player)
      asked == [st EXCEPT !.queried = @ \cup {player}]
  IN IF player \notin player_ids(w) THEN st
     ELSE IF Missing(st, w, player) = <<>> THEN st
     ELSE IF ~player_matches.ok THEN [asked EXCEPT !.failure = "match list"]
     ELSE Step2Rows(asked, w, player, player_matches.rows, 1)

RECURSIVE Step2Loop(_, _, _, _)
Step2Loop(st, w, ps, k) ==
  IF k > Len(ps) \/ st.failure # "" THEN st
  ELSE Step2Loop(Step2Player(st, w, ps[k]), w, ps, k + 1)

Step2Result == Step2Loop(RunState, wb, players(wb), 1)

Step2 ==
  /\ pc = "step2"
  /\ LET st == Step2Result IN
     /\ matches' = st.matches
     /\ match_id_to_excel' = st.match_id_to_excel
     /\ queried' = st.queried
     /\ wb' = [wb EXCEPT !.links = st.links, !.flag = st.flag]
     /\ failure' = st.failure
     /\ pc' = IF st.failure # "" THEN "aborted" ELSE "step3"
  /\ UNCHANGED <<callVars, disk, rm, pageUp, skip_fetching, matches_by_hand,
                 html_cache, finished_by_id, fetches, edits, quiet>>

\* ------------------------------------------------------------ run: step 3
\* the winner the export of match id names, seen from the page of player
WinnerFrom(player, opponent_name, pos) ==
  IF pos < mid_threshold THEN player ELSE opponent_name

\* the body of the loop over the rows of the page of player, for one row
Step3Row(fin, player, row) ==
  LET match_id == ParseInt(StrCell(row.match_id)).n IN
  IF ~rm[match_id].up THEN fin
  ELSE IF rm[match_id].wins = 0 THEN fin
  ELSE Put(fin, match_id, WinnerFrom(player, row.opponent_name, rm[match_id].wins))

RECURSIVE Step3Rows(_, _, _, _)
Step3Rows(fin, player, rows, k) ==
  IF k > Len(rows) THEN fin
  ELSE Step3Rows(Step3Row(fin, player, rows[k]), player, rows, k + 1)

Step3Player(fin, w, player) ==
  IF player \notin player_ids(w) THEN fin
  ELSE IF ~pageUp[player] THEN fin
  ELSE Step3Rows(fin, player, UserPage(player), 1)

RECURSIVE Step3Loop(_, _, _, _)
Step3Loop(fin, w, ps, k) ==
  IF k > Len(ps) THEN fin
  ELSE Step3Loop(Step3Player(fin, w, ps[k]), w, ps, k + 1)

Step3 ==
  /\ pc = "step3"
  /\ finished_by_id' = Step3Loop(finished_by_id, wb, players(wb), 1)
  /\ pc' = "phase1"
  /\ UNCHANGED <<callVars, disk, wb, rm, pageUp, skip_fetching, matches,
                 matches_by_hand, match_id_to_excel, html_cache, fetches,
                 queried, edits, quiet, failure>>

\* ----------------------------------------------------------- run: phase 1
\* The loops over match_id_to_excel and finished_by_id are taken in ascending
\* id order: every id is bound to one grid address and no two ids to the same
\* one, so the order of the dictionary does not show in the result.
RECURSIVE SortedSeq(_)
SortedSeq(S) ==
  IF S = {} THEN <<>>
  ELSE LET m == CHOOSE x \in S : \A y \in S : x <= y
       IN <<m>> \o SortedSeq(S \ {m})

\* write_score_to_excel as it would be without the lookup of the two names in
\* the Matches sheet
write_score_unchecked(score, w, excel_player, excel_opponent, player_score, opponent_score) ==
  LET key == <<excel_player, excel_opponent>> IN
  IF key \notin Cells THEN score
  ELSE IF Holds(score[key].left, TERMINAL) \/ Holds(score[key].right, TERMINAL)
       THEN score
  ELSE [score EXCEPT ![key] = [left |-> <<player_score>>,
                               right |-> <<opponent_score>>]]

\* write_score_to_excel: the score grid after the call
write_score_to_excel(score, w, excel_player, excel_opponent, player_score, opponent_score) ==
  LET key == <<excel_player, excel_opponent>> IN
  IF ~InSeq(excel_player, players_in_matches(w))
     \/ ~InSeq(excel_opponent, players_in_matches(w)) THEN score
  ELSE IF Holds(score[key].left, TERMINAL) \/ Holds(score[key].right, TERMINAL)
       THEN score
  ELSE [score EXCEPT ![key] = [left |-> <<player_score>>,
                               right |-> <<opponent_score>>]]

\* the body of the phase 1 loop as it would be if an abstention of the mapper
\* were taken for the score 0 : 0
Phase1MatchZero(st, w, match_id) ==
  LET info == match_id_to_excel[match_id]
      held == IF Has(st.html_cache, match_id) THEN st.html_cache[match_id]
              ELSE NoneHtml
      html == IF held.some THEN held ELSE fetch_list_html(match_id)
      got == IF held.some THEN st
             ELSE [st EXCEPT !.html_cache = Put(@, match_id, html),
                             !.fetches = Bump(@, match_id)]
      result == extract_latest_score(html, players_in_matches(w))
      mapped == map_scores_for_excel(info[1], info[2], result.left_name,
                                     result.right_name, result.left_score,
                                     result.right_score, info[3])
  IN IF ~html.some THEN got
     ELSE IF ~result.found THEN got
     ELSE [got EXCEPT !.score =
             write_score_to_excel(@, w, info[1], info[2], mapped.player_score,
                                  mapped.opponent_score)]

\* the body of the phase 1 loop, for one entry of match_id_to_excel
Phase1Match(st, w, match_id) ==
  LET info == match_id_to_excel[match_id]
      held == IF Has(st.html_cache, match_id) THEN st.html_cache[match_id]
              ELSE NoneHtml
      html == IF held.some THEN held ELSE fetch_list_html(match_id)
      got == IF held.some THEN st
             ELSE [st EXCEPT !.html_cache = Put(@, match_id, html),
                             !.fetches = Bump(@, match_id)]
      result == extract_latest_score(html, players_in_matches(w))
      mapped == map_scores_for_excel(info[1], info[2], result.left_name,
                                     result.right_name, result.left_score,
                                     result.right_score, info[3])
  IN IF ~html.some THEN got
     ELSE IF ~result.found THEN got
     ELSE IF ~mapped.some THEN got
     ELSE [got EXCEPT !.score =
             write_score_to_excel(@, w, info[1], info[2], mapped.player_score,
                                  mapped.opponent_score)]

RECURSIVE Phase1Loop(_, _, _, _)
Phase1Loop(st, w, ids, k) ==
  IF k > Len(ids) THEN st
  ELSE Phase1Loop(Phase1Match(st, w, ids[k]), w, ids, k + 1)

Phase1Result ==
  Phase1Loop([html_cache |-> html_cache, fetches |-> fetches, score |-> wb.score],
             wb, SortedSeq(DOMAIN match_id_to_excel), 1)

Phase1 ==
  /\ pc = "phase1"
  /\ LET st == Phase1Result IN
     /\ html_cache' = st.html_cache
     /\ fetches' = st.fetches
     /\ wb' = [wb EXCEPT !.score = st.score]
  /\ pc' = "phase2"
  /\ UNCHANGED <<callVars, disk, rm, pageUp, skip_fetching, matches,
                 matches_by_hand, match_id_to_excel, finished_by_id, queried,
                 edits, quiet, failure>>

\* ----------------------------------------------------------- run: phase 2
\* the winner cell as it would be chosen if a Normal record were treated like
\* a Switched one
WinnerCellMirrored(excel_player, excel_opponent, switched_flag, winner_name) ==
  LET winner_lower == Lower(Strip(winner_name)) IN
  IF winner_lower = Lower(excel_player) THEN "right"
  ELSE IF winner_lower = Lower(excel_opponent) THEN "left"
  ELSE "none"

\* the cell of the pairing that receives the terminal value
WinnerCell(excel_player, excel_opponent, switched_flag, winner_name) ==
  LET winner_lower == Lower(Strip(winner_name)) IN
  IF switched_flag
  THEN IF winner_lower = Lower(excel_player) THEN "right"
       ELSE IF winner_lower = Lower(excel_opponent) THEN "left"
       ELSE "none"
  ELSE IF winner_lower = Lower(excel_player) THEN "left"
       ELSE IF winner_lower = Lower(excel_opponent) THEN "right"
       ELSE "none"

\* the body of the phase 2 loop, for one entry of finished_by_id
Phase2Match(score, w, match_id) ==
  LET info == match_id_to_excel[match_id]
      key == <<info[1], info[2]>>
      cell == WinnerCell(info[1], info[2], info[3], finished_by_id[match_id])
  IN IF ~Has(match_id_to_excel, match_id) THEN score
     ELSE IF ~InSeq(info[1], players_in_matches(w))
             \/ ~InSeq(info[2], players_in_matches(w)) THEN score
     ELSE IF cell = "left" THEN [score EXCEPT ![key].left = <<TERMINAL>>]
     ELSE IF cell = "right" THEN [score EXCEPT ![key].right = <<TERMINAL>>]
     ELSE score

RECURSIVE Phase2Loop(_, _, _, _)
Phase2Loop(score, w, ids, k) ==
  IF k > Len(ids) THEN score
  ELSE Phase2Loop(Phase2Match(score, w, ids[k]), w, ids, k + 1)

Phase2Result == Phase2Loop(wb.score, wb, SortedSeq(DOMAIN finished_by_id), 1)

Phase2 ==
  /\ pc = "phase2"
  /\ wb' = [wb EXCEPT !.score = Phase2Result]
  /\ pc' = "check"
  /\ UNCHANGED <<callVars, disk, rm, pageUp, runVars, edits, quiet, failure>>

\* ------------------------------------------------- run: completion and save
all_filled(w) ==
  \A i \in 1..Len(row_players_links(w)) :
    \A j \in 1..Len(col_opponents_links(w)) :
      LET player_name == row_players_links(w)[i]
          opp == col_opponents_links(w)[j]
      IN player_name # opp => Truthy(w.links[<<player_name, opp>>])

CompletionCheck ==
  /\ pc = "check"
  /\ wb' = [wb EXCEPT !.control = IF all_filled(wb) THEN ALL_FILLED ELSE @]
  /\ pc' = "save"
  /\ UNCHANGED <<callVars, disk, rm, pageUp, runVars, edits, quiet, failure>>

\* the workbook is saved (handed out as the file of the next run) and the run
\* ends
Save ==
  /\ pc = "save"
  /\ disk' = wb
  /\ wb' = NoBook
  /\ pc' = "idle"
  /\ quiet' = TRUE
  /\ skip_fetching' = FALSE
  /\ NewRun
  /\ UNCHANGED <<callVars, rm, pageUp, edits, failure>>

\* ------------------------------------------- moderator and remote events
Event ==
  /\ pc = "idle"
  /\ edits < MaxEdits
  /\ edits' = edits + 1
  /\ quiet' = FALSE
  /\ UNCHANGED <<callVars, wb, pc, runVars, failure>>

\* what a moderator types into an identifier cell: a number, a text id, a typo
ManualValues == {IntCell(7), StrCell(<<"7", "x">>)}

EnterId ==
  /\ Event
  /\ \E c \in Cells, v \in ManualValues :
       /\ c[1] \in disk.grid /\ c[2] \in disk.grid
       /\ disk.links[c] = NoneCell
       /\ disk' = [disk EXCEPT !.links[c] = v]
  /\ UNCHANGED <<rm, pageUp>>

\* a new row of the Players sheet, with or without the hyperlink to the
\* player's page, and with or without the player's row and columns in the
\* Links and Matches sheets
AddPlayer ==
  /\ Event
  /\ \E p \in Names \ disk.players, linked \in BOOLEAN, gridded \in BOOLEAN :
       /\ linked \/ gridded
       /\ disk' = [disk EXCEPT !.players = @ \cup {p},
                               !.pids = IF linked THEN @ \cup {p} ELSE @,
                               !.grid = IF gridded THEN @ \cup {p} ELSE @]
  /\ UNCHANGED <<rm, pageUp>>

\* a player of the site invites a tournament player: the next match id,
\* inviter on the left
Invite ==
  /\ Event
  /\ \E i \in 1..Len(MatchOrder), l \in SitePlayers, r \in Names :
       /\ l # r
       /\ ~rm[MatchOrder[i]].exists
       /\ \A j \in 1..(i - 1) : rm[MatchOrder[j]].exists
       /\ rm' = [rm EXCEPT ![MatchOrder[i]] =
                   [exists |-> TRUE, left |-> l, right |-> r, stage |-> 1,
                    wins |-> 0, up |-> TRUE]]
  /\ UNCHANGED <<disk, pageUp>>

Play ==
  /\ Event
  /\ \E m \in MatchIds :
       /\ rm[m].exists /\ rm[m].stage < Len(ScoreLines)
       /\ rm' = [rm EXCEPT ![m].stage = @ + 1]
  /\ UNCHANGED <<disk, pageUp>>

Finish ==
  /\ Event
  /\ \E m \in MatchIds, pos \in WinsPositions :
       /\ rm[m].exists /\ rm[m].wins = 0
       /\ rm' = [rm EXCEPT ![m].wins = pos]
  /\ UNCHANGED <<disk, pageUp>>

\* the match page and export of a match become unreachable, or reachable again
MatchOutage ==
  /\ Event
  /\ \E m \in MatchIds :
       /\ rm[m].exists
       /\ rm' = [rm EXCEPT ![m].up = ~@]
  /\ UNCHANGED <<disk, pageUp>>

\* the page of a linked player becomes unreachable, or reachable again
PageOutage ==
  /\ Event
  /\ \E p \in disk.pids : pageUp' = [pageUp EXCEPT ![p] = ~@]
  /\ UNCHANGED <<disk, rm>>

Next ==
  \/ StartRun \/ LoginFails \/ Crash
  \/ Step1 \/ Step2 \/ Step3 \/ Phase1 \/ Phase2 \/ CompletionCheck \/ Save
  \/ EnterId \/ AddPlayer \/ Invite \/ Play \/ Finish \/ MatchOutage
  \/ PageOutage

Spec == Init /\ [][Next]_vars

\* ------------------------------------------- the mapper taken on its own
\* names as a match page may show them: other case, longer, padded, foreign
PageNames ==
  {Ann, <<"a", "N">>, <<"A", "n", "n">>, <<"B", "o", " ">>, <<"b", "o", "b">>, Di}
ScoreVals == {0, 3, 5}

Calls ==
  {c \in [player : Names, opponent : Names, left_name : PageNames,
          right_name : PageNames, left_score : ScoreVals,
          right_score : ScoreVals, switched_flag : BOOLEAN] :
     c.player # c.opponent}

\* no run is going on; one call of the mapper is about to be made
MapperInit ==
  /\ disk = EmptyBook({Ann, Bob})
  /\ wb = NoBook
  /\ rm = [m \in MatchIds |-> NoMatch]
  /\ pageUp = [p \in Names |-> TRUE]
  /\ pc = "idle"
  /\ skip_fetching = FALSE
  /\ NewRunValues
  /\ edits = 0
  /\ quiet = FALSE
  /\ failure = ""
  /\ call \in Calls
  /\ ret = Pending

MapCall ==
  /\ ret = Pending
  /\ ret' = map_scores_for_excel(call.player, call.opponent, call.left_name,
                                 call.right_name, call.left_score,
                                 call.right_score, call.switched_flag)
  /\ UNCHANGED <<call, disk, wb, rm, pageUp, pc, runVars, edits, quiet, failure>>

MapperSpec == MapperInit /\ [][MapCall]_vars

\* ================================================================ claims
Finished(cell) == Holds(cell.left, TERMINAL) \/ Holds(cell.right, TERMINAL)

\* the identifier grid as stored, or as the running process holds it
LinksNow == IF pc \in {"idle", "aborted"} THEN disk.links ELSE wb.links

\* the cells whose identifier parses to match id m
CellsOf(w, m) ==
  {c \in Cells : Truthy(w.links[c]) /\ ParseInt(w.links[c]).ok
                 /\ ParseInt(w.links[c]).n = m}

\* C1: once either score cell of a pairing holds 11, no write of phase 1 or of
\* phase 2, in this or a later run, changes either cell of that pairing.
TerminalKept ==
  pc \in {"phase1", "phase2"} =>
    \A c \in Cells : Finished(wb.score[c]) => (wb'.score[c] = wb.score[c])

C1_TerminalImmutable == [][TerminalKept]_vars

\* C2: a second run on the grid the first run saved, with the remote data
\* unchanged, saves the same grid again.
C2_Idempotent == (pc = "save" /\ quiet) => wb = disk

\* C3: an identifier cell that holds a value keeps that value through every
\* step of every run, whatever match ids the remote reports.
IdentifierKept ==
  \A c \in Cells : LinksNow[c] # NoneCell => (LinksNow'[c] = LinksNow[c])

C3_IdentifierAppendOnly == [][IdentifierKept]_vars

\* step 2 has asked the page of a row player whose filled cell holds another
\* id than a match the page lists for that pairing
C3_Witness ==
  /\ pc = "step3" /\ ~skip_fetching
  /\ \E c \in Cells, m \in MatchIds :
       /\ disk.links[c] # NoneCell
       /\ ParseInt(disk.links[c]).ok /\ ParseInt(disk.links[c]).n # m
       /\ rm[m].exists /\ {rm[m].left, rm[m].right} = {c[1], c[2]}
       /\ c[1] \in queried
       /\ wb.links[c] = disk.links[c]

\* the match ids reported decided in this run, with a record in the mapping
Decided == DOMAIN finished_by_id \cap DOMAIN match_id_to_excel

\* the score the page of m shows for the player named n, as <<score>>
ShownFor(m, n) ==
  IF rm[m].left = n THEN <<ScoreLines[rm[m].stage][1]>>
  ELSE <<ScoreLines[rm[m].stage][2]>>

\* C4: a run that starts with the completion marker set still scores the
\* identified pairings: some cell that holds the id of a reachable match of its
\* two players shows the two scores of the page (or is Finished), and a match
\* reported decided has a Finished cell.
C4_MarkerRunStillScores ==
  (pc = "save" /\ skip_fetching) =>
    \A m \in MatchIds :
      LET held == {c \in CellsOf(wb, m) : {c[1], c[2]} = {rm[m].left, rm[m].right}}
      IN (rm[m].exists /\ rm[m].up /\ held # {}) =>
           /\ \E c \in held :
                \/ Finished(wb.score[c])
                \/ {wb.score[c].left, wb.score[c].right}
                     = {ShownFor(m, c[1]), ShownFor(m, c[2])}
           /\ Has(finished_by_id, m) => \E c \in held : Finished(wb.score[c])

\* C5: within one run fetch_list_html is called at most once per match id.
C5_FetchedOncePerRun == \A m \in DOMAIN fetches : fetches[m] <= 1

\* C6: at the end of a run the completion marker is set exactly when every
\* off-diagonal identifier cell of the listed players is non-empty.
C6_MarkerIffAllFilled ==
  pc = "save" =>
    ((wb.control = ALL_FILLED) <=>
       \A c \in Cells :
         (c[1] \in wb.grid /\ c[2] \in wb.grid) => wb.links[c] # NoneCell)

\* C7: for a decided match whose record is Switched (the page lists the row
\* player on the right), after phase 2 the cell of the winner holds 11: the row
\* player's cell (left) when the row player won, the column opponent's cell
\* (right) when the opponent won.
C7_SwitchedWinnerCell ==
  pc = "check" =>
    \A m \in Decided :
      LET info == match_id_to_excel[m]
          key == <<info[1], info[2]>>
      IN (/\ info[3] /\ info[1] \in wb.grid /\ info[2] \in wb.grid
          /\ rm[m].left = info[2] /\ rm[m].right = info[1]) =>
           /\ finished_by_id[m] = info[1] => Holds(wb.score[key].left, TERMINAL)
           /\ finished_by_id[m] = info[2] => Holds(wb.score[key].right, TERMINAL)

\* C8: phase 2 sets, for a decided match with a Normal record, the row cell to
\* 11 when the row player won and the column cell when the opponent won, keeps
\* the other cell of the pairing, and changes no cell of a pairing that has no
\* decided match in this run.
NormalWinnerWrite ==
  pc = "phase2" =>
    \A c \in Cells :
      LET here == {m \in Decided : <<match_id_to_excel[m][1], match_id_to_excel[m][2]>> = c}
      IN /\ here = {} => (wb'.score[c] = wb.score[c])
         /\ \A m \in here :
              (~match_id_to_excel[m][3] /\ c[1] \in wb.grid /\ c[2] \in wb.grid) =>
                /\ finished_by_id[m] = c[1] =>
                     /\ wb'.score[c].left = <<TERMINAL>>
                     /\ wb'.score[c].right = wb.score[c].right
                /\ finished_by_id[m] = c[2] =>
                     /\ wb'.score[c].right = <<TERMINAL>>
                     /\ wb'.score[c].left = wb.score[c].left

C8_NormalWinnerWrite == [][NormalWinnerWrite]_vars

\* phase 2 has written 11 for the row player of a Normal record next to an
\* intermediate score of the opponent
C8_Witness ==
  /\ pc = "check"
  /\ \E m \in Decided :
       LET info == match_id_to_excel[m]
           key == <<info[1], info[2]>>
       IN /\ ~info[3] /\ finished_by_id[m] = info[1]
          /\ wb.score[key].left = <<TERMINAL>>
          /\ wb.score[key].right \notin {NoScore, <<TERMINAL>>}
          /\ disk.score[key].left # <<TERMINAL>>

\* C9: no failed remote request ends the run.
C9_FetchFailureNotFatal == ~(pc = "aborted" /\ failure = "match list")

\* C10: a malformed identifier does not end the run: step 1 goes on and the
\* run reaches the scoring phases.
C10_MalformedIdNotFatal == ~(pc = "aborted" /\ failure = "identifier")

\* C11: with the Switched flag the mapper returns (rightScore, leftScore),
\* whatever the names are.
C11_SwitchedSwaps ==
  (ret # Pending /\ call.switched_flag) =>
    ret = Mapped(call.right_score, call.left_score)

\* the mapper has swapped two different scores for a Switched record whose
\* page names are the pairing in grid order
C11_Witness ==
  /\ ret # Pending /\ call.switched_flag
  /\ Lower(Strip(call.left_name)) = Lower(call.player)
  /\ Lower(Strip(call.right_name)) = Lower(call.opponent)
  /\ call.left_score # call.right_score
  /\ ret = Mapped(call.right_score, call.left_score)

\* the document phase 1 reads for match id m: the cached one, or a fresh one
Phase1Doc(m) ==
  IF Has(html_cache, m) /\ html_cache[m].some THEN html_cache[m]
  ELSE fetch_list_html(m)

\* one name is contained in the other (or equal to it), case ignored
Related(a, b) ==
  IsSubstr(Lower(Strip(a)), Lower(Strip(b))) \/ IsSubstr(Lower(Strip(b)), Lower(Strip(a)))

\* neither player of the pairing is related to a name of the page
Unrelated(info, result) ==
  \A g \in {info[1], info[2]}, x \in {result.left_name, result.right_name} :
    ~Related(g, x)

\* the records of the mapping with orientation Normal whose page in phase 1
\* shows two names unrelated to the pairing
Strangers ==
  {m \in DOMAIN match_id_to_excel :
     LET info == match_id_to_excel[m]
         result == extract_latest_score(Phase1Doc(m), players_in_matches(wb))
     IN ~info[3] /\ Phase1Doc(m).some /\ result.found /\ Unrelated(info, result)}

\* C12: for a Normal record whose page names neither match the pairing nor
\* are in a substring relation with it, the mapper returns no mapping and
\* phase 1 leaves both score cells of the pairing as they were.
C12_AbstainWritesNothing ==
  pc = "phase1" =>
    \A m \in Strangers :
      LET info == match_id_to_excel[m]
          key == <<info[1], info[2]>>
          result == extract_latest_score(Phase1Doc(m), players_in_matches(wb))
      IN /\ map_scores_for_excel(info[1], info[2], result.left_name,
                                  result.right_name, result.left_score,
                                  result.right_score, info[3]) = NoMapping
         /\ key \in Cells => Phase1Result.score[key] = wb.score[key]

\* phase 1 has passed over a record of two listed players whose page shows
\* two other names, and the empty score cells are still empty
C12_Witness ==
  /\ pc = "phase2"
  /\ \E m \in Strangers :
       LET info == match_id_to_excel[m]
           key == <<info[1], info[2]>>
       IN /\ info[1] \in wb.grid /\ info[2] \in wb.grid
          /\ key \in Cells
          /\ wb.score[key] = [left |-> NoScore, right |-> NoScore]

\* the match ids the page of player p lists for opponent o, in page order
ListedFor(p, o) ==
  SelectSeq(UserPage(p), LAMBDA row : row.opponent_name = o)

\* the cells that were empty when the run started, of a linked row player
\* whose page lists a match against the column player
Discoverable ==
  {c \in Cells : /\ c[1] \in disk.grid /\ c[2] \in disk.grid
                 /\ c[1] \in disk.pids
                 /\ disk.links[c] = NoneCell
                 /\ ListedFor(c[1], c[2]) # <<>>}

\* the cell holds the first id listed for its pairing and its flag is set
Filled(w, c) ==
  /\ Truthy(w.links[c]) /\ ParseInt(w.links[c]).ok
  /\ ToStr(ParseInt(w.links[c]).n) = ListedFor(c[1], c[2])[1].match_id
  /\ w.flag[c] # FlagNone

\* C13: at the end of a run every empty identifier cell (P, O) of a linked
\* player P whose match list names O holds the first match id listed for O,
\* and its flag is set.
C13_DiscoveryFill ==
  pc = "save" => \A c \in Discoverable : Filled(wb, c)

\* the cells step 1 visits, in the order of its two loops
Step1Cells == PairSeq(row_players_links(wb), col_opponents_links(wb))

\* the state of the run after step 1 has visited its first k cells
AfterCells(k) == Step1Loop(RunState, wb, SubSeq(Step1Cells, 1, k), 1)

\* the orientation recorded for every match id of mapping a is the same in b
SameOrientation(a, b) ==
  \A m \in DOMAIN a : Has(b, m) /\ b[m][3] = a[m][3]

\* C14: a match id that is met again, in a second identifier cell in step 1
\* or on another player's match list in step 2, keeps the orientation that
\* was recorded for it.
C14_OrientationStable ==
  /\ pc = "step1" =>
       \A k \in 1..Len(Step1Cells) :
         AfterCells(k).failure = "" =>
           SameOrientation(AfterCells(k - 1).match_id_to_excel,
                           AfterCells(k).match_id_to_excel)
  /\ pc = "step2" =>
       SameOrientation(match_id_to_excel, Step2Result.match_id_to_excel)

\* the identifier cells of listed players that hold a value
FilledCells(w) ==
  {c \in Cells : c[1] \in w.grid /\ c[2] \in w.grid /\ Truthy(w.links[c])}

\* the document step 1 had for cell c: none for a flagged cell
Step1Doc(c) ==
  IF wb.flag[c] = FlagNone THEN fetch_list_html(ParseInt(wb.links[c]).n)
  ELSE NoneHtml

\* the page of cell c names, case ignored, the column player on the left and
\* the row player on the right
Reversed(c) ==
  LET info == extract_latest_score(Step1Doc(c), <<c[1], c[2]>>) IN
  /\ Step1Doc(c).some /\ info.found
  /\ Lower(info.left_name) = Lower(c[2])
  /\ Lower(info.right_name) = Lower(c[1])

\* C15: after step 1 a filled identifier cell is recorded as Switched only
\* when its page names the column player left and the row player right; with
\* no document, no score row, names in grid order or names in neither order
\* the pairing is kept as Normal with its id.
C15_SwitchedOnlyWhenReversed ==
  (pc = "step2" /\ ~skip_fetching) =>
    /\ \A c \in FilledCells(wb) :
         /\ Has(matches_by_hand, c) => Reversed(c)
         /\ ~Reversed(c) =>
              /\ Has(matches, c) /\ matches[c] = ParseInt(wb.links[c]).n
              /\ ~Has(matches_by_hand, c)
    /\ \A m \in DOMAIN match_id_to_excel :
         match_id_to_excel[m][3] =>
           Reversed(<<match_id_to_excel[m][1], match_id_to_excel[m][2]>>)

\* step 1 has recorded one cell as Switched and has kept another, whose page
\* names match neither order, as Normal
C15_Witness ==
  /\ pc = "step2" /\ ~skip_fetching
  /\ \E c \in FilledCells(wb) : Has(matches_by_hand, c) /\ Reversed(c)
  /\ \E c \in FilledCells(wb) :
       LET info == extract_latest_score(Step1Doc(c), <<c[1], c[2]>>) IN
       /\ Step1Doc(c).some /\ info.found
       /\ {Lower(info.left_name), Lower(info.right_name)} # {Lower(c[1]), Lower(c[2])}
       /\ Has(matches, c) /\ ~Has(matches_by_hand, c)

\* the filled identifier cells whose flag was set when the run started
FlaggedCells == {c \in FilledCells(wb) : disk.flag[c] # FlagNone}

\* C16: after step 1 every flagged identifier cell is in the mapping with
\* its id, and step 1 has fetched no document for it: an id held by flagged
\* cells only has not been fetched at all.
C16_FlaggedNotFetched ==
  (pc = "step2" /\ ~skip_fetching) =>
    \A c \in FlaggedCells :
      LET id == ParseInt(wb.links[c]).n IN
      /\ Has(matches, c) /\ matches[c] = id
      /\ Has(match_id_to_excel, id)
      /\ (\A d \in FilledCells(wb) :
            ParseInt(wb.links[d]).n = id => d \in FlaggedCells)
           => ~Has(fetches, id)

\* step 1 has passed a flagged cell that holds the id of a reachable match,
\* without a fetch
C16_Witness ==
  /\ pc = "step2" /\ ~skip_fetching
  /\ \E c \in FlaggedCells :
       LET id == ParseInt(wb.links[c]).n IN
       /\ id \in MatchIds /\ rm[id].exists /\ rm[id].up
       /\ Has(matches, c) /\ matches[c] = id
       /\ ~Has(fetches, id)

\* the listed players without a hyperlink to their page
Unlinked(w) == w.players \ w.pids

\* C17: step 2 asks for no match list of a player without external id and
\* writes no identifier cell or flag of that player's row; the other players
\* are still handled: with their pages reachable step 2 ends without failure
\* and has asked every linked player who misses an opponent.
C17_UnlinkedSkipped ==
  (pc = "step2" /\ Unlinked(wb) # {}) =>
    /\ \A p \in Unlinked(wb) :
         /\ p \notin Step2Result.queried
         /\ \A c \in Cells :
              c[1] = p => /\ Step2Result.links[c] = wb.links[c]
                          /\ Step2Result.flag[c] = wb.flag[c]
    /\ (\A q \in wb.pids : pageUp[q]) =>
         /\ Step2Result.failure = ""
         /\ \A q \in wb.pids :
              Missing(RunState, wb, q) # <<>> => q \in Step2Result.queried

\* step 2 has passed over an unlinked player who has a match with a listed
\* opponent, has left that player's cell empty, and has then asked a linked
\* player further down the sheet and filled the opponent's cell
C17_Witness ==
  /\ pc = "step3" /\ ~skip_fetching
  /\ \E p \in Unlinked(wb), q \in queried, m \in MatchIds :
       /\ \E i, j \in 1..Len(players(wb)) :
            i < j /\ players(wb)[i] = p /\ players(wb)[j] = q
       /\ rm[m].exists /\ {rm[m].left, rm[m].right} = {p, q}
       /\ wb.links[<<p, q>>] = NoneCell
       /\ Truthy(wb.links[<<q, p>>])

\* the records of the mapping, of two listed players, whose page in phase 1
\* names exactly these two players and whose score cells are not Finished
Scorable ==
  {m \in DOMAIN match_id_to_excel :
     LET info == match_id_to_excel[m]
         key == <<info[1], info[2]>>
         result == extract_latest_score(Phase1Doc(m), players_in_matches(wb))
     IN /\ key \in Cells /\ info[1] \in wb.grid /\ info[2] \in wb.grid
        /\ Phase1Doc(m).some /\ result.found
        /\ \/ /\ Lower(result.left_name) = Lower(info[1])
              /\ Lower(result.right_name) = Lower(info[2])
           \/ /\ Lower(result.left_name) = Lower(info[2])
              /\ Lower(result.right_name) = Lower(info[1])
        /\ ~Finished(wb.score[key])}

\* the score the page in phase 1 shows next to the name n
ScoreNextTo(m, n) ==
  LET result == extract_latest_score(Phase1Doc(m), players_in_matches(wb)) IN
  IF Lower(result.left_name) = Lower(n) THEN result.left_score
  ELSE result.right_score

\* C18: what phase 1 writes for a record whose page names exactly its two
\* players is, in the row player's cell, the score shown next to the row
\* player and, in the column cell, the score shown next to the opponent.
C18_ScoresByName ==
  pc = "phase1" =>
    \A m \in Scorable :
      LET info == match_id_to_excel[m]
          key == <<info[1], info[2]>>
      IN /\ Phase1Result.score[key].left = <<ScoreNextTo(m, info[1])>>
         /\ Phase1Result.score[key].right = <<ScoreNextTo(m, info[2])>>

\* the decided matches both of whose players are linked and have a page that
\* can be fetched
SeenFromBothPages ==
  {m \in MatchIds : /\ rm[m].exists /\ rm[m].up /\ rm[m].wins # 0
                    /\ {rm[m].left, rm[m].right} \subseteq wb.pids
                    /\ pageUp[rm[m].left] /\ pageUp[rm[m].right]}

\* the winner step 3 derives for match m when it works on the page of p
WinnerSeenFrom(p, m) == Step3Player(EmptyDict, wb, p)[m]

\* C19: the winner step 3 derives from the export of a decided match is the
\* same from the page of either player.
C19_WinnerSameFromBothPages ==
  pc = "phase1" =>
    \A m \in SeenFromBothPages :
      WinnerSeenFrom(rm[m].left, m) = WinnerSeenFrom(rm[m].right, m)

\* a name as the mapper compares it
Norm(x) == Lower(Strip(x))

\* C20: with Normal orientation the mapper returns (leftScore, rightScore)
\* for left = row and right = col, (rightScore, leftScore) for left = col and
\* right = row, case ignored; otherwise (leftScore, rightScore) if the row
\* player's name is contained in the left name, else (rightScore, leftScore)
\* if it is contained in the right name; in every other case nothing.
C20_NormalRules ==
  (ret # Pending /\ ~call.switched_flag) =>
    LET ln == Norm(call.left_name)
        rn == Norm(call.right_name)
        pn == Norm(call.player)
        on == Norm(call.opponent)
        straight == Mapped(call.left_score, call.right_score)
        swapped == Mapped(call.right_score, call.left_score)
    IN /\ (ln = pn /\ rn = on) => ret = straight
       /\ (ln = on /\ rn = pn) => ret = swapped
       /\ (~(ln = pn /\ rn = on) /\ ~(ln = on /\ rn = pn)) =>
            /\ IsSubstr(pn, ln) => ret = straight
            /\ (~IsSubstr(pn, ln) /\ IsSubstr(pn, rn)) => ret = swapped
            /\ (~IsSubstr(pn, ln) /\ ~IsSubstr(pn, rn)) => ret = NoMapping

\* the mapper has abstained for a Normal record where only the column
\* opponent's name is contained in a name of the page
C20_Witness ==
  /\ ret # Pending /\ ~call.switched_flag
  /\ IsSubstr(Norm(call.opponent), Norm(call.left_name))
  /\ Norm(call.opponent) # Norm(call.left_name)
  /\ ~IsSubstr(Norm(call.player), Norm(call.left_name))
  /\ ~IsSubstr(Norm(call.player), Norm(call.right_name))
  /\ ret = NoMapping

\* the record of match id m is bound to the grid address key
BoundTo(m, key) ==
  /\ Has(match_id_to_excel, m)
  /\ <<match_id_to_excel[m][1], match_id_to_excel[m][2]>> = key

\* C21: after discovery every (row, col) key of matches and of
\* matches_by_hand has the record of its match id bound to that same (row,
\* col) address, so that phase 1 attempts a score write for it.
C21_EveryAddressScored ==
  (pc = "step3" /\ ~skip_fetching) =>
    /\ \A key \in DOMAIN matches : BoundTo(matches[key], key)
    /\ \A key \in DOMAIN matches_by_hand : BoundTo(matches_by_hand[key][1], key)

\* the decided matches of this run whose reported winner is one of the two
\* players of the record, both of them in the score grid
DecidedForRecord ==
  {m \in Decided :
     LET info == match_id_to_excel[m] IN
     /\ Lower(Strip(finished_by_id[m])) \in {Lower(info[1]), Lower(info[2])}
     /\ InSeq(info[1], players_in_matches(wb))
     /\ InSeq(info[2], players_in_matches(wb))}

\* C22: at the end of a run that executed discovery, every match of the
\* mapping that is reported decided with a winner among the two players of its
\* record (both in the score grid) has a Finished pairing, and the cell of the
\* winner (the row cell when the row player won, the column cell when the
\* opponent won) holds 11, not the intermediate score of that run.
C22_DecidedIsFinished ==
  (pc = "save" /\ ~skip_fetching) =>
    \A m \in DecidedForRecord :
      LET info == match_id_to_excel[m]
          key == <<info[1], info[2]>>
      IN /\ Finished(wb.score[key])
         /\ Lower(Strip(finished_by_id[m])) = Lower(info[1])
              => Holds(wb.score[key].left, TERMINAL)
         /\ Lower(Strip(finished_by_id[m])) = Lower(info[2])
              => Holds(wb.score[key].right, TERMINAL)

\* the part of C22 that every reachable state keeps: the pairing is Finished,
\* and for a Normal record the 11 stands in the cell of the winner
FinishedAtSave ==
  (pc = "save" /\ ~skip_fetching) =>
    \A m \in DecidedForRecord :
      LET info == match_id_to_excel[m]
          key == <<info[1], info[2]>>
      IN /\ Finished(wb.score[key])
         /\ ~info[3] =>
              /\ Lower(Strip(finished_by_id[m])) = Lower(info[1])
                    => Holds(wb.score[key].left, TERMINAL)
              /\ Lower(Strip(finished_by_id[m])) = Lower(info[2])
                    => Holds(wb.score[key].right, TERMINAL)

\* a step of a run other than the save, or a step that ends in the failure of
\* the run, leaves the stored workbook as it is
StoredKept ==
  (pc \notin {"idle", "save"} \/ pc' = "aborted") => disk' = disk

\* C23: the stored grid changes only by the save at the end of a run: every
\* step before it works on the workbook in memory, so a run that ends in an
\* uncaught failure (login, match list of a player, malformed identifier)
\* leaves the stored identifier, flag, score and marker cells as they were.
C23_AbortKeepsStored == [][StoredKept]_vars

\* a run has failed in step 2 after it had filled identifier cells in memory
C23_Witness ==
  /\ pc = "aborted"
  /\ failure # "login"
  /\ wb # NoBook
  /\ wb.links # disk.links

\* C24: a run that starts with the completion marker set changes no
\* identifier cell and no flag cell, queries the match list of no player and
\* fetches no match page in step 1 (its mapping stays empty, so the run
\* fetches no match page at all).
C24_MarkerRunSkipsDiscovery ==
  (skip_fetching /\ pc \in {"step3", "phase1", "phase2", "check", "save"}) =>
    /\ wb.links = disk.links
    /\ wb.flag = disk.flag
    /\ queried = {}
    /\ fetches = EmptyDict
    /\ matches = EmptyDict /\ matches_by_hand = EmptyDict

\* a run with the marker set has reached its save although discovery would
\* have had work: an empty cell of a linked player has a listed match
C24_Witness ==
  /\ pc = "save"
  /\ skip_fetching
  /\ Discoverable # {}

\* the records that name a player without a row in the Matches sheet
Structural ==
  {m \in DOMAIN match_id_to_excel :
     \/ ~InSeq(match_id_to_excel[m][1], players_in_matches(wb))
     \/ ~InSeq(match_id_to_excel[m][2], players_in_matches(wb))}

\* the cells of the model that stand for no cell of the Links and Matches
\* sheets: one of the two names has no row and column there
OffGrid == {c \in Cells : c[1] \notin wb.grid \/ c[2] \notin wb.grid}

\* step 2 does not fail over a name without a row or column in the Links
\* sheet: with every player page answering it ends without a failure, writes
\* no identifier or flag for such a name, and fills every other empty cell
\* that has a listed match
Step2PerPairing ==
  (pc = "step2" /\ \A p \in wb.pids : pageUp[p]) =>
    /\ Step2Result.failure = ""
    /\ \A c \in OffGrid :
         /\ Step2Result.links[c] = wb.links[c]
         /\ Step2Result.flag[c] = wb.flag[c]
    /\ \A c \in Cells \ OffGrid :
         (/\ c[1] \in wb.pids /\ c[1] # c[2] /\ c[2] \in wb.players
          /\ ~Truthy(wb.links[c])
          /\ ~Has(matches, c) /\ ~Has(matches_by_hand, c)
          /\ ListedFor(c[1], c[2]) # <<>>) => Truthy(Step2Result.links[c])

\* phase 1 writes nothing for a structural record and treats every other
\* record as if the structural ones were not there
Phase1PerPairing ==
  pc = "phase1" =>
    /\ \A c \in OffGrid : Phase1Result.score[c] = wb.score[c]
    /\ Phase1Result.score
         = Phase1Loop([html_cache |-> html_cache, fetches |-> fetches,
                       score |-> wb.score],
                      wb, SortedSeq(DOMAIN match_id_to_excel \ Structural), 1).score

\* phase 2 likewise
Phase2PerPairing ==
  pc = "phase2" =>
    /\ \A c \in OffGrid : Phase2Result[c] = wb.score[c]
    /\ Phase2Result
         = Phase2Loop(wb.score, wb,
                      SortedSeq(DOMAIN finished_by_id \ Structural), 1)

\* C25: a record that names a player without a row in the score grid (or, in
\* step 2, a name without a row or column in the identifier grid) gets no cell
\* written in phase 1 and phase 2; the run does not end over it, and every
\* other pairing is processed as if that record were not there.
C25_StructuralPerPairing ==
  /\ Step2PerPairing
  /\ Phase1PerPairing
  /\ Phase2PerPairing
  /\ \A c \in OffGrid : wb # NoBook => wb.score[c] = disk.score[c]

\* a run has reached its save although step 2 found a match of a player
\* without a row in the Links sheet and a decided match, whose page phase 1
\* has fetched, has a record that names a player missing from the Matches
\* sheet; another pairing has received its scores in this run
C25_Witness ==
  /\ pc = "save" /\ ~skip_fetching
  /\ \E key \in DOMAIN matches : key[1] \in wb.players \ wb.grid
  /\ \E m \in Structural :
       /\ Has(html_cache, m) /\ html_cache[m].some
       /\ Has(finished_by_id, m)
  /\ \E m \in DOMAIN match_id_to_excel \ Structural :
       LET key == <<match_id_to_excel[m][1], match_id_to_excel[m][2]>>
       IN wb.score[key] # disk.score[key]

====
